---- MODULE Spec2Model ----
(***************************************************************************)
(* Model of agentcore-agent-template/src/agent.py: the import-time         *)
(* configuration resolver, the agent factory create_agent and the Lambda   *)
(* handler, run by a hosting runtime that may interleave invocations.      *)
(*                                                                         *)
(* Python values are modelled as follows.  A str is a TLA+ string; None    *)
(* (and an unset environment variable) is the reserved string None.  A     *)
(* dict is a function whose domain is its key set.  A list is a sequence.  *)
(* An optional object (an unbound local, session_manager=None) is the      *)
(* empty sequence <<>>, a bound one a one-element sequence.                *)
(***************************************************************************)
EXTENDS Integers, Sequences, FiniteSets, TLC

VARIABLES
    environ,        \* os.environ of the process
    globals,        \* module globals of agent.py (configuration constants)
    clock,          \* wall clock, in ticks of 1/TicksPerSecond s
    nextAgentId,    \* identity of the next object Agent(...) constructs
    log,            \* records emitted through logger
    pc,             \* per invocation: position in handler
    event,          \* per invocation: the inbound event
    message,        \* handler local
    session_id,     \* handler local
    user_id,        \* handler local
    agent,          \* handler local
    now_read,       \* create_agent: what datetime.now() returned
    e,              \* handler local: str(e) of the caught exception
    response,       \* per invocation: the value handler returned
    calls,          \* per invocation: calls made to the collaborators
    trace           \* per invocation: what the collaborators did

vars == <<environ, globals, clock, nextAgentId, log, pc, event, message,
          session_id, user_id, agent, now_read, e, response, calls, trace>>

(***************************************************************************)
(* Bounds of the model.                                                    *)
(***************************************************************************)
MaxClock == 2
Invocations == {"inv1", "inv2"}

(***************************************************************************)
(* Python values.                                                          *)
(***************************************************************************)
None == "<None>"

Truthy(v) == v # None /\ v # ""

EmptyDict == [k \in {} |-> None]

DictGet(d, k, default) == IF k \in DOMAIN d THEN d[k] ELSE default

Dicts(keys, values) == UNION {[S -> values] : S \in SUBSET keys}

(***************************************************************************)
(* Configuration resolver (module import).                                 *)
(***************************************************************************)
EnvVars == {"TENANT_ID", "ENVIRONMENT", "AWS_REGION", "AGENTCORE_MEMORY_ID", "MODEL_ID"}

EnvSample == [TENANT_ID |-> "acme", ENVIRONMENT |-> "prod", AWS_REGION |-> "us-east-1",
              AGENTCORE_MEMORY_ID |-> "mem-1", MODEL_ID |-> "model-x"]

\* Every environment: each variable unset, set to the empty string, or set.
Environs ==
    {f \in Dicts(EnvVars, {""} \cup {EnvSample[k] : k \in EnvVars}) :
        \A k \in DOMAIN f : f[k] \in {"", EnvSample[k]}}

\* The environments the handler is run under: the variables create_agent and
\* handler branch on or copy into the session binding.
HandlerEnvirons ==
    { EmptyDict,
      [AGENTCORE_MEMORY_ID |-> ""],
      [AGENTCORE_MEMORY_ID |-> "mem-1"],
      [TENANT_ID |-> "acme", AGENTCORE_MEMORY_ID |-> "mem-1"] }

\* Mutant of Getenv: os.getenv(key) or default.
GetenvOrDefault(env, key, default) ==
    IF Truthy(DictGet(env, key, None)) THEN DictGet(env, key, None) ELSE default

Getenv(env, key, default) == DictGet(env, key, default)

DefaultOf ==
    [TENANT_ID |-> "demo-tenant", ENVIRONMENT |-> "dev", AWS_REGION |-> "eu-west-2",
     MODEL_ID |-> "anthropic.claude-sonnet-4-20250514-v1:0"]

FormatSystemPrompt(tenant_id, environment) ==
    "You are a helpful assistant for " \o tenant_id \o ". Current environment: " \o environment

CUSTOM_TOOLS == <<"get_tenant_info", "store_user_preference", "get_current_time">>

ModuleGlobals(env, memory_importable) ==
    LET tenant == Getenv(env, "TENANT_ID", DefaultOf["TENANT_ID"])
        environment == Getenv(env, "ENVIRONMENT", DefaultOf["ENVIRONMENT"])
    IN  [AGENTCORE_MEMORY_AVAILABLE |-> memory_importable,
         TENANT_ID |-> tenant,
         ENVIRONMENT |-> environment,
         AWS_REGION |-> Getenv(env, "AWS_REGION", DefaultOf["AWS_REGION"]),
         MEMORY_ID |-> Getenv(env, "AGENTCORE_MEMORY_ID", None),
         MODEL_ID |-> Getenv(env, "MODEL_ID", DefaultOf["MODEL_ID"]),
         SYSTEM_PROMPT |-> FormatSystemPrompt(tenant, environment),
         CUSTOM_TOOLS |-> CUSTOM_TOOLS]

\* Module globals before agent.py is imported, and the test for "imported".
NotImported == EmptyDict

Imported == globals # NotImported

(***************************************************************************)
(* Inbound events and the delegated agent's results.                       *)
(***************************************************************************)
EventKeys == {"message", "sessionId", "userId"}

EventSample == [message |-> "Hello", sessionId |-> "s1", userId |-> "u1"]

\* A well-formed event: each key absent, the empty string, or a value.
EventDicts ==
    {d \in Dicts(EventKeys, {""} \cup {EventSample[k] : k \in EventKeys}) :
        \A k \in DOMAIN d : d[k] \in {"", EventSample[k]}}

\* An event that is no dict (the runtime passed None).
NonDictEvent == [type |-> "NoneType", items |-> EmptyDict]

Events == {[type |-> "dict", items |-> d] : d \in EventDicts} \cup {NonDictEvent}

NoEvent == [type |-> "unset", items |-> EmptyDict]

ContentLists ==
    { <<>>,
      <<[toolUse |-> "get_current_time"]>>,
      <<[text |-> "Hi there"]>>,
      <<[text |-> "Hi there"], [text |-> "More"]>> }

MessageDicts ==
    {[role |-> "assistant"]} \cup
    {[role |-> "assistant", content |-> c] : c \in ContentLists}

UsageSample == [inputTokens |-> 5, outputTokens |-> 3]

UsageDicts == {[k \in S |-> UsageSample[k]] : S \in SUBSET {"inputTokens", "outputTokens"}}

MetricsDicts == {EmptyDict, [latencyMs |-> 120]}

FullResult ==
    [message |-> [role |-> "assistant", content |-> <<[text |-> "Hi there"]>>],
     accumulated_usage |-> UsageSample,
     accumulated_metrics |-> [latencyMs |-> 120]]

\* What agent(message) may return: every shape of the message with complete
\* metrics, and every shape of the metrics with a complete message.
AgentResults ==
    {r \in [message : MessageDicts, accumulated_usage : UsageDicts,
            accumulated_metrics : MetricsDicts] :
        \/ r.message = FullResult.message
        \/ /\ r.accumulated_usage = FullResult.accumulated_usage
           /\ r.accumulated_metrics = FullResult.accumulated_metrics}

\* str(e) of what the collaborators may raise.
BedrockModelError == "Unknown model id"
SessionManagerError == "Memory not found"
AgentError == "Agent construction failed"
InvocationError == "Test error"
Faults == {"none", "BedrockModel", "AgentCoreMemorySessionManager", "Agent"}

\* Classes of what the collaborators may raise that do not derive from
\* Exception (str(e) of a bare instance is the empty string).
Interrupts == {"KeyboardInterrupt"}

\* str(e) of what handler's own statements raise.
AttributeErrorText == "'NoneType' object has no attribute 'get'"
IndexErrorText == "list index out of range"

(***************************************************************************)
(* create_agent.                                                           *)
(***************************************************************************)
TicksPerSecond == 2
StampWidth == 14

RECURSIVE ZeroPad(_, _)
ZeroPad(s, width) == IF Len(s) >= width THEN s ELSE ZeroPad("0" \o s, width)

\* Mutant of Strftime: a format that keeps the fraction of the second.
StrftimeSubsecond(now) == ZeroPad(ToString(now), StampWidth)

\* datetime.strftime('%Y%m%d%H%M%S') of a clock reading: the whole seconds,
\* zero padded (the model's clock starts at the all-zero date).
Strftime(now) == ZeroPad(ToString(now \div TicksPerSecond), StampWidth)

\* Mutant of MemoryEnabled: MEMORY_ID is not None.
MemoryEnabledIfSet(g) == g.AGENTCORE_MEMORY_AVAILABLE /\ g.MEMORY_ID # None

\* if AGENTCORE_MEMORY_AVAILABLE and MEMORY_ID
MemoryEnabled(g) == g.AGENTCORE_MEMORY_AVAILABLE /\ Truthy(g.MEMORY_ID)

\* session_id or f"session-{...}": datetime.now() is read only when needed.
ReadsClock(g, sid) == MemoryEnabled(g) /\ ~Truthy(sid)

EffectiveSessionId(sid, now) == IF Truthy(sid) THEN sid ELSE "session-" \o Strftime(now)

EffectiveActorId(g, aid) == IF Truthy(aid) THEN aid ELSE "actor-" \o g.TENANT_ID

MemoryConfig(g, sid, aid, now) ==
    [memory_id |-> g.MEMORY_ID,
     session_id |-> EffectiveSessionId(sid, now),
     actor_id |-> EffectiveActorId(g, aid)]

SessionManager(g, sid, aid, now) ==
    [agentcore_memory_config |-> MemoryConfig(g, sid, aid, now),
     region_name |-> g.AWS_REGION]

\* The session_manager argument of Agent(...): None unless memory is enabled.
SessionManagerArg(g, sid, aid, now) ==
    IF MemoryEnabled(g) THEN <<SessionManager(g, sid, aid, now)>> ELSE <<>>

\* Mutant of NewAgentId: the agent built last is kept and handed out again.
ReusedAgentId == IF nextAgentId > 1 THEN nextAgentId - 1 ELSE nextAgentId

\* Identity of the object a call of Agent(...) constructs.
NewAgentId == nextAgentId

NewAgent(g, sid, aid, now) ==
    [id |-> NewAgentId,
     model |-> [model_id |-> g.MODEL_ID, region_name |-> g.AWS_REGION,
                temperature |-> "0.7", max_tokens |-> 2048],
     system_prompt |-> g.SYSTEM_PROMPT,
     tools |-> g.CUSTOM_TOOLS,
     session_manager |-> SessionManagerArg(g, sid, aid, now)]

\* The constructor calls create_agent reaches when the named one raises.
ReachesSessionManager(g, fault) == MemoryEnabled(g) /\ fault # "BedrockModel"

ReachesAgent(fault) == fault \in {"none", "Agent"}

FaultText(fault) ==
    CASE fault = "BedrockModel" -> BedrockModelError
      [] fault = "AgentCoreMemorySessionManager" -> SessionManagerError
      [] fault = "Agent" -> AgentError
      [] OTHER -> None

(***************************************************************************)
(* handler.                                                                *)
(***************************************************************************)
\* Mutant of Local: the value is kept in one module-level variable.
ModuleLevel(var, i) == var[CHOOSE j \in Invocations : TRUE]

\* A read of a local of invocation i's frame.
Local(var, i) == var[i]

\* Mutant of MessageMissing: message is None.
MessageIsNone(msg) == msg = None

\* Mutant of ExceptCatches: a bare except clause.
ExceptCatchesAll(cls) == TRUE

\* except Exception as e: the classes the clause catches.
ExceptCatches(cls) == cls \notin Interrupts

\* if not message
MessageMissing(msg) == ~Truthy(msg)

ValidationResponse == [statusCode |-> 400, body |-> [error |-> "No message provided"]]

\* result.message.get("content", [{}])
ContentOf(result) == DictGet(result.message, "content", <<EmptyDict>>)

\* [...][0] raises IndexError on an empty list.
ExtractRaises(result) == Len(ContentOf(result)) = 0

\* [...][0].get("text", "")
ResponseText(result) == DictGet(ContentOf(result)[1], "text", "")

\* Mutant of SuccessResponse: the body echoes a substituted session id.
SuccessResponseEchoDefault(response_text, sid, result) ==
    [statusCode |-> 200,
     body |-> [response |-> response_text,
               sessionId |-> IF Truthy(sid) THEN sid ELSE "session-default",
               metrics |-> [inputTokens |-> DictGet(result.accumulated_usage, "inputTokens", 0),
                            outputTokens |-> DictGet(result.accumulated_usage, "outputTokens", 0),
                            latencyMs |-> DictGet(result.accumulated_metrics, "latencyMs", 0)]]]

SuccessResponse(response_text, sid, result) ==
    [statusCode |-> 200,
     body |-> [response |-> response_text,
               sessionId |-> sid,
               metrics |-> [inputTokens |-> DictGet(result.accumulated_usage, "inputTokens", 0),
                            outputTokens |-> DictGet(result.accumulated_usage, "outputTokens", 0),
                            latencyMs |-> DictGet(result.accumulated_metrics, "latencyMs", 0)]]]

\* Mutant of ErrorResponse: a fixed text instead of str(e).
ErrorResponseGeneric(text) == [statusCode |-> 500, body |-> [error |-> "Internal server error"]]

ErrorResponse(text) == [statusCode |-> 500, body |-> [error |-> text]]

ErrorLogRecord(i, text) == <<"ERROR", i, "Handler error: " \o text>>

NoCalls == [create_agent |-> 0, session_manager |-> 0, agent_ctor |-> 0, agent |-> 0]

NoTrace == [raised |-> None, interrupt |-> None, result |-> <<>>, created |-> 0, invoked |-> 0]

\* now_read while datetime.now() has not been called.
NotRead == -1

(***************************************************************************)
(* Initial states.                                                         *)
(***************************************************************************)
InitRest ==
    /\ globals = NotImported
    /\ clock = 0
    /\ nextAgentId = 1
    /\ log = {}
    /\ pc = [i \in Invocations |-> "start"]
    /\ event = [i \in Invocations |-> NoEvent]
    /\ message = [i \in Invocations |-> None]
    /\ session_id = [i \in Invocations |-> None]
    /\ user_id = [i \in Invocations |-> None]
    /\ agent = [i \in Invocations |-> <<>>]
    /\ now_read = [i \in Invocations |-> NotRead]
    /\ e = [i \in Invocations |-> None]
    /\ response = [i \in Invocations |-> <<>>]
    /\ calls = [i \in Invocations |-> NoCalls]
    /\ trace = [i \in Invocations |-> NoTrace]

Init == environ \in HandlerEnvirons /\ InitRest

InitConfig == environ \in Environs /\ InitRest

(***************************************************************************)
(* Actions.                                                                *)
(***************************************************************************)
\* Import of agent.py: the optional memory import succeeds or raises
\* ImportError, and the configuration constants are read from the environment.
ImportModule ==
    /\ ~Imported
    /\ \E memory_importable \in BOOLEAN :
           globals' = ModuleGlobals(environ, memory_importable)
    /\ UNCHANGED <<environ, clock, nextAgentId, log, pc, event, message, session_id,
                   user_id, agent, now_read, e, response, calls, trace>>

\* handler, from its entry to the call of create_agent.  The locals of a
\* frame that has returned are gone: they are None again once pc is "returned".
HandlerEntry(i, ev) ==
    /\ Imported
    /\ pc[i] = "start"
    /\ event' = [event EXCEPT ![i] = ev]
    /\ log' = log \cup {<<"INFO", i, "Handler invoked for tenant " \o globals.TENANT_ID>>}
    /\ IF ev.type # "dict"
       THEN /\ e' = [e EXCEPT ![i] = AttributeErrorText]
            /\ pc' = [pc EXCEPT ![i] = "except"]
            /\ UNCHANGED <<message, session_id, user_id, response>>
       ELSE LET msg == DictGet(ev.items, "message", "")
            IN  /\ IF MessageMissing(msg)
                   THEN /\ response' = [response EXCEPT ![i] = <<ValidationResponse>>]
                        /\ pc' = [pc EXCEPT ![i] = "returned"]
                        /\ UNCHANGED <<message, session_id, user_id>>
                   ELSE /\ message' = [message EXCEPT ![i] = msg]
                        /\ session_id' = [session_id EXCEPT ![i] =
                                              DictGet(ev.items, "sessionId", None)]
                        /\ user_id' = [user_id EXCEPT ![i] = DictGet(ev.items, "userId", None)]
                        /\ pc' = [pc EXCEPT ![i] = "create_agent"]
                        /\ UNCHANGED response
                /\ UNCHANGED e
    /\ UNCHANGED <<environ, globals, clock, nextAgentId, agent, now_read, calls, trace>>

\* create_agent(session_id=session_id, actor_id=user_id), with the constructor
\* named by fault raising ("none": all return).
CreateAgent(i, fault, now) ==
    LET reads == ReadsClock(globals, Local(session_id, i)) /\ fault # "BedrockModel"
        withMemory == ReachesSessionManager(globals, fault)
    IN  /\ pc[i] = "create_agent"
        /\ fault = "AgentCoreMemorySessionManager" => MemoryEnabled(globals)
        /\ now >= clock
        /\ ~reads => now = clock
        /\ clock' = now
        /\ now_read' = [now_read EXCEPT ![i] = IF reads THEN now ELSE NotRead]
        /\ calls' = [calls EXCEPT ![i] =
                        [@ EXCEPT !.create_agent = @ + 1,
                                  !.session_manager = @ + (IF withMemory THEN 1 ELSE 0),
                                  !.agent_ctor = @ + (IF ReachesAgent(fault) THEN 1 ELSE 0)]]
        /\ log' = log
                  \cup (IF withMemory
                        THEN {<<"INFO", i, "Configuring AgentCore Memory: " \o globals.MEMORY_ID>>}
                        ELSE {})
                  \cup (IF fault = "none"
                        THEN {<<"INFO", i, "Agent created for tenant " \o globals.TENANT_ID>>}
                        ELSE {})
        /\ IF fault = "none"
           THEN /\ agent' = [agent EXCEPT ![i] =
                                <<NewAgent(globals, Local(session_id, i), Local(user_id, i), now)>>]
                /\ nextAgentId' = nextAgentId + 1
                /\ pc' = [pc EXCEPT ![i] = "agent_call"]
                /\ trace' = [trace EXCEPT ![i] = [@ EXCEPT !.created = NewAgentId]]
                /\ UNCHANGED e
           ELSE /\ e' = [e EXCEPT ![i] = FaultText(fault)]
                /\ pc' = [pc EXCEPT ![i] = "except"]
                /\ trace' = [trace EXCEPT ![i] = [@ EXCEPT !.raised = FaultText(fault)]]
                /\ UNCHANGED <<agent, nextAgentId>>
        /\ UNCHANGED <<environ, globals, event, message, session_id, user_id, response>>

\* agent(message) raises.
AgentCallRaises(i) ==
    /\ pc[i] = "agent_call"
    /\ calls' = [calls EXCEPT ![i] = [@ EXCEPT !.agent = @ + 1]]
    /\ trace' = [trace EXCEPT ![i] =
                    [@ EXCEPT !.invoked = Local(agent, i)[1].id, !.raised = InvocationError]]
    /\ e' = [e EXCEPT ![i] = InvocationError]
    /\ pc' = [pc EXCEPT ![i] = "except"]
    /\ UNCHANGED <<environ, globals, clock, nextAgentId, log, event, message, session_id,
                   user_id, agent, now_read, response>>

\* agent(message) returns result; handler extracts the text and the metrics.
AgentCallReturns(i, result) ==
    /\ pc[i] = "agent_call"
    /\ calls' = [calls EXCEPT ![i] = [@ EXCEPT !.agent = @ + 1]]
    /\ trace' = [trace EXCEPT ![i] =
                    [@ EXCEPT !.invoked = Local(agent, i)[1].id, !.result = <<result>>]]
    /\ IF ExtractRaises(result)
       THEN /\ e' = [e EXCEPT ![i] = IndexErrorText]
            /\ pc' = [pc EXCEPT ![i] = "except"]
            /\ UNCHANGED <<response, message, session_id, user_id, agent, now_read>>
       ELSE /\ response' = [response EXCEPT ![i] =
                   <<SuccessResponse(ResponseText(result), Local(session_id, i), result)>>]
            /\ pc' = [pc EXCEPT ![i] = "returned"]
            /\ message' = [message EXCEPT ![i] = None]
            /\ session_id' = [session_id EXCEPT ![i] = None]
            /\ user_id' = [user_id EXCEPT ![i] = None]
            /\ agent' = [agent EXCEPT ![i] = <<>>]
            /\ now_read' = [now_read EXCEPT ![i] = NotRead]
            /\ UNCHANGED e
    /\ UNCHANGED <<environ, globals, clock, nextAgentId, log, event>>

\* create_agent (cls raised by BedrockModel(...)) or agent(message) raises an
\* exception of class cls that does not derive from Exception: the except
\* clause is passed over and the exception leaves handler.
Interrupted(i, cls) ==
    /\ pc[i] \in {"create_agent", "agent_call"}
    /\ calls' = [calls EXCEPT ![i] =
                    IF pc[i] = "create_agent"
                    THEN [@ EXCEPT !.create_agent = @ + 1]
                    ELSE [@ EXCEPT !.agent = @ + 1]]
    /\ trace' = [trace EXCEPT ![i] =
                    [@ EXCEPT !.interrupt = cls,
                              !.invoked = IF pc[i] = "agent_call"
                                          THEN Local(agent, i)[1].id ELSE @]]
    /\ IF ExceptCatches(cls)
       THEN /\ e' = [e EXCEPT ![i] = ""]
            /\ pc' = [pc EXCEPT ![i] = "except"]
            /\ UNCHANGED <<message, session_id, user_id, agent, now_read>>
       ELSE /\ pc' = [pc EXCEPT ![i] = "propagated"]
            /\ message' = [message EXCEPT ![i] = None]
            /\ session_id' = [session_id EXCEPT ![i] = None]
            /\ user_id' = [user_id EXCEPT ![i] = None]
            /\ agent' = [agent EXCEPT ![i] = <<>>]
            /\ now_read' = [now_read EXCEPT ![i] = NotRead]
            /\ UNCHANGED e
    /\ UNCHANGED <<environ, globals, clock, nextAgentId, log, event, response>>

\* except Exception as e: logger.error(...)
LogError(i) ==
    /\ pc[i] = "except"
    /\ log' = log \cup {ErrorLogRecord(i, Local(e, i))}
    /\ pc' = [pc EXCEPT ![i] = "return_error"]
    /\ UNCHANGED <<environ, globals, clock, nextAgentId, event, message, session_id,
                   user_id, agent, now_read, e, response, calls, trace>>

\* return {"statusCode": 500, "body": {"error": str(e)}}
ReturnError(i) ==
    /\ pc[i] = "return_error"
    /\ response' = [response EXCEPT ![i] = <<ErrorResponse(Local(e, i))>>]
    /\ pc' = [pc EXCEPT ![i] = "returned"]
    /\ message' = [message EXCEPT ![i] = None]
    /\ session_id' = [session_id EXCEPT ![i] = None]
    /\ user_id' = [user_id EXCEPT ![i] = None]
    /\ agent' = [agent EXCEPT ![i] = <<>>]
    /\ e' = [e EXCEPT ![i] = None]
    /\ now_read' = [now_read EXCEPT ![i] = NotRead]
    /\ UNCHANGED <<environ, globals, clock, nextAgentId, log, event, calls, trace>>

Next ==
    \/ ImportModule
    \/ \E i \in Invocations, ev \in Events : HandlerEntry(i, ev)
    \/ \E i \in Invocations, fault \in Faults, now \in 0..MaxClock : CreateAgent(i, fault, now)
    \/ \E i \in Invocations : AgentCallRaises(i)
    \/ \E i \in Invocations, result \in AgentResults : AgentCallReturns(i, result)
    \/ \E i \in Invocations, cls \in Interrupts : Interrupted(i, cls)
    \/ \E i \in Invocations : LogError(i)
    \/ \E i \in Invocations : ReturnError(i)

Spec == Init /\ [][Next]_vars

\* The configuration resolver alone, over every environment.
NextConfig == ImportModule

SpecConfig == InitConfig /\ [][NextConfig]_vars

(***************************************************************************)
(* Properties.                                                             *)
(***************************************************************************)
Returned(i) == pc[i] = "returned"

RequestField(i, key, default) == DictGet(event[i].items, key, default)

\* C1: a request whose message is absent or the empty string is answered
\* 400 {error: "No message provided"}, and create_agent, the session manager,
\* Agent(...) and the agent are never called for it.
C1_EmptyMessageRejected ==
    \A i \in Invocations :
        (event[i].type = "dict" /\ RequestField(i, "message", "") = "")
        => /\ Returned(i)
           /\ response[i] = <<[statusCode |-> 400, body |-> [error |-> "No message provided"]]>>
           /\ calls[i] = NoCalls
           /\ trace[i] = NoTrace

C1_Witness ==
    \E i, j \in Invocations :
        /\ Returned(i) /\ event[i].type = "dict" /\ "message" \notin DOMAIN event[i].items
        /\ Returned(j) /\ event[j].type = "dict" /\ "message" \in DOMAIN event[j].items
        /\ event[j].items["message"] = ""

\* C2: when the message is non-empty and create_agent and the agent both
\* return, the response is 200 with a non-null response string and the three
\* metrics, each the non-negative value the result reports, or 0 when the
\* result omits it.
C2_SuccessIs200WithMetrics ==
    \A i \in Invocations :
        (Returned(i) /\ trace[i].result # <<>>)
        => LET r == trace[i].result[1]
               resp == response[i][1]
               Reported(d, k) == IF k \in DOMAIN d THEN d[k] ELSE 0
           IN  /\ resp.statusCode = 200
               /\ resp.body.response # None
               /\ resp.body.metrics.inputTokens = Reported(r.accumulated_usage, "inputTokens")
               /\ resp.body.metrics.outputTokens = Reported(r.accumulated_usage, "outputTokens")
               /\ resp.body.metrics.latencyMs = Reported(r.accumulated_metrics, "latencyMs")
               /\ \A k \in DOMAIN resp.body.metrics : resp.body.metrics[k] >= 0

C4_FirstTextOrEmpty ==
    \A i \in Invocations :
        (Returned(i) /\ trace[i].result # <<>>)
        => LET m == trace[i].result[1].message
               expected == IF "content" \notin DOMAIN m THEN ""
                           ELSE IF m.content = <<>> THEN ""
                           ELSE IF "text" \notin DOMAIN m.content[1] THEN ""
                           ELSE m.content[1].text
           IN  /\ response[i][1].statusCode = 200
               /\ response[i][1].body.response = expected

\* C5: a request with a non-empty message gets a single attempt: create_agent
\* is called once, the agent it returned (a new object, shared with no other
\* invocation) is invoked at most once, and once either step has raised no
\* further construction or invocation is made.
C5_SingleAttemptFreshAgent ==
    \A i \in Invocations :
        /\ calls[i].create_agent <= 1 /\ calls[i].agent_ctor <= 1 /\ calls[i].agent <= 1
        /\ (Returned(i) /\ event[i].type = "dict" /\ Truthy(RequestField(i, "message", "")))
           => calls[i].create_agent = 1
        /\ trace[i].raised \in {BedrockModelError, SessionManagerError, AgentError}
           => calls[i].create_agent = 1 /\ calls[i].agent = 0
        /\ trace[i].raised = InvocationError
           => calls[i].create_agent = 1 /\ calls[i].agent = 1
        /\ trace[i].invoked # 0 => trace[i].invoked = trace[i].created
        /\ \A j \in Invocations \ {i} :
               trace[i].created # 0 => trace[i].created # trace[j].created

C5_Witness ==
    \E i, j \in Invocations :
        /\ i # j
        /\ Returned(i) /\ trace[i].raised = InvocationError
        /\ Returned(j) /\ trace[j].invoked # 0 /\ response[j][1].statusCode = 200

\* What handler returns for a request and the collaborators' behaviour when
\* it runs alone.
HandlerAlone(ev, tr) ==
    IF ev.type # "dict"
    THEN [statusCode |-> 500, body |-> [error |-> AttributeErrorText]]
    ELSE IF ~Truthy(DictGet(ev.items, "message", ""))
    THEN [statusCode |-> 400, body |-> [error |-> "No message provided"]]
    ELSE IF tr.raised # None
    THEN [statusCode |-> 500, body |-> [error |-> tr.raised]]
    ELSE LET r == tr.result[1]
             content == IF "content" \in DOMAIN r.message THEN r.message.content
                        ELSE <<EmptyDict>>
             Reported(d, k) == IF k \in DOMAIN d THEN d[k] ELSE 0
         IN  IF content = <<>>
             THEN [statusCode |-> 500, body |-> [error |-> IndexErrorText]]
             ELSE [statusCode |-> 200,
                   body |-> [response |-> IF "text" \in DOMAIN content[1]
                                          THEN content[1].text ELSE "",
                             sessionId |-> DictGet(ev.items, "sessionId", None),
                             metrics |-> [inputTokens |-> Reported(r.accumulated_usage, "inputTokens"),
                                          outputTokens |-> Reported(r.accumulated_usage, "outputTokens"),
                                          latencyMs |-> Reported(r.accumulated_metrics, "latencyMs")]]]

\* C6: under every interleaving of invocations, each response is the one the
\* invocation would produce alone from its own request and its own agent
\* result, and no step of an invocation changes the process-wide
\* configuration (the module globals) or the environment.
C6_IsolatedInvocations ==
    /\ [](\A i \in Invocations :
            Returned(i) => response[i] = <<HandlerAlone(event[i], trace[i])>>)
    /\ [][Imported => (globals' = globals /\ environ' = environ)]_vars

C6_Witness ==
    \E i, j \in Invocations :
        /\ i # j
        /\ Returned(i) /\ response[i][1].statusCode = 200
        /\ Returned(j) /\ response[j][1].statusCode = 200
        /\ response[i][1].body.sessionId # response[j][1].body.sessionId
        /\ trace[i].result # trace[j].result
        /\ trace[j].created < trace[i].created /\ nextAgentId = 3

\* C7: in every 200 response body.sessionId is the sessionId of the request,
\* and null when the request has none, also when create_agent substituted a
\* default session id in the memory binding.
C7_SessionIdEchoed ==
    \A i \in Invocations :
        (Returned(i) /\ response[i][1].statusCode = 200)
        => response[i][1].body.sessionId =
               (IF "sessionId" \in DOMAIN event[i].items
                THEN event[i].items["sessionId"] ELSE None)

C7_Witness ==
    \E i, j \in Invocations :
        /\ Returned(i) /\ response[i][1].statusCode = 200
        /\ "sessionId" \notin DOMAIN event[i].items /\ calls[i].session_manager = 1
        /\ Returned(j) /\ response[j][1].statusCode = 200
        /\ "sessionId" \in DOMAIN event[j].items /\ event[j].items["sessionId"] = "s1"

\* A memory identifier is configured: AGENTCORE_MEMORY_ID is set and not empty.
MemoryConfigured ==
    "AGENTCORE_MEMORY_ID" \in DOMAIN environ /\ environ["AGENTCORE_MEMORY_ID"] # ""

\* C8 as stated: create_agent builds a session binding and passes it to the
\* agent exactly when a memory identifier is configured; otherwise the agent
\* gets no binding and no session manager is constructed.
C8_BindingIffConfigured ==
    \A i \in Invocations :
        /\ agent[i] # <<>> => (agent[i][1].session_manager # <<>> <=> MemoryConfigured)
        /\ ~MemoryConfigured => calls[i].session_manager = 0

\* C8 as amended: create_agent builds a session binding and passes it to the
\* agent exactly when a memory identifier is configured and the memory
\* integration was importable (AGENTCORE_MEMORY_AVAILABLE); otherwise the
\* agent gets no binding and no session manager is constructed.
C8_BindingIffConfiguredAndAvailable ==
    \A i \in Invocations :
        LET enabled == MemoryConfigured /\ globals.AGENTCORE_MEMORY_AVAILABLE
        IN  /\ agent[i] # <<>> =>
                  /\ agent[i][1].session_manager # <<>> <=> enabled
                  /\ calls[i].session_manager = (IF enabled THEN 1 ELSE 0)
            /\ calls[i].session_manager > 0 => enabled

C8_Witness ==
    \E i, j \in Invocations :
        /\ agent[i] # <<>> /\ agent[i][1].session_manager # <<>>
        /\ agent[i][1].session_manager[1].agentcore_memory_config.memory_id = "mem-1"
        /\ calls[j].session_manager = 1 /\ trace[j].raised = SessionManagerError

\* The documented defaults of the configuration resolver.
DocumentedDefault(k) ==
    CASE k = "TENANT_ID" -> "demo-tenant"
      [] k = "ENVIRONMENT" -> "dev"
      [] k = "AWS_REGION" -> "eu-west-2"
      [] k = "MODEL_ID" -> "anthropic.claude-sonnet-4-20250514-v1:0"

Defaulted == {"TENANT_ID", "ENVIRONMENT", "AWS_REGION", "MODEL_ID"}

\* C9 as stated: each of TENANT_ID, ENVIRONMENT, AWS_REGION and MODEL_ID
\* resolves to its documented default when the variable is absent and when it
\* is the empty string, and to the environment value otherwise.
C9_DefaultIfAbsentOrEmpty ==
    Imported =>
        \A k \in Defaulted :
            globals[k] = (IF k \notin DOMAIN environ \/ environ[k] = ""
                          THEN DocumentedDefault(k) ELSE environ[k])

\* C9 as amended: each of TENANT_ID, ENVIRONMENT, AWS_REGION and MODEL_ID
\* resolves to its documented default only when the variable is absent; when
\* it is set, the empty string included, the resolved value is the
\* environment value.
C9_DefaultOnlyIfAbsent ==
    Imported =>
        \A k \in Defaulted :
            globals[k] = (IF k \notin DOMAIN environ
                          THEN DocumentedDefault(k) ELSE environ[k])

C9_Witness ==
    /\ Imported
    /\ "TENANT_ID" \in DOMAIN environ /\ environ["TENANT_ID"] = "" /\ globals.TENANT_ID = ""
    /\ "MODEL_ID" \notin DOMAIN environ
    /\ "AWS_REGION" \in DOMAIN environ /\ environ["AWS_REGION"] = "us-east-1"

\* The session binding invocation i's agent carries.
HasBinding(i) == agent[i] # <<>> /\ agent[i][1].session_manager # <<>>

Binding(i) == agent[i][1].session_manager[1].agentcore_memory_config

\* C10 as stated: the binding is keyed by the request's sessionId and userId
\* when supplied; a default is substituted only for an identifier that is
\* absent.
C10_DefaultOnlyIfAbsent ==
    \A i \in Invocations :
        HasBinding(i) =>
            /\ "sessionId" \in DOMAIN event[i].items
               => Binding(i).session_id = event[i].items["sessionId"]
            /\ "userId" \in DOMAIN event[i].items
               => Binding(i).actor_id = event[i].items["userId"]

\* C10 as amended: the binding is keyed by the request's sessionId and userId
\* when supplied and not empty; a default is substituted for an identifier
\* that is absent or empty: session-<timestamp to the second> and
\* actor-<tenant id>.  Two requests that both get the defaults are bound to
\* the same session and actor whenever their timestamps fall in the same
\* second.
C10_DefaultIfAbsentOrEmpty ==
    \A i \in Invocations :
        HasBinding(i) =>
            LET sid == RequestField(i, "sessionId", None)
                uid == RequestField(i, "userId", None)
            IN  /\ Binding(i).session_id =
                       (IF sid \notin {None, ""} THEN sid
                        ELSE "session-" \o ZeroPad(ToString(now_read[i] \div TicksPerSecond), 14))
                /\ Binding(i).actor_id =
                       (IF uid \notin {None, ""} THEN uid ELSE "actor-" \o globals.TENANT_ID)
                /\ \A j \in Invocations :
                       (/\ HasBinding(j)
                        /\ sid \in {None, ""} /\ uid \in {None, ""}
                        /\ RequestField(j, "sessionId", None) \in {None, ""}
                        /\ RequestField(j, "userId", None) \in {None, ""}
                        /\ now_read[i] \div TicksPerSecond = now_read[j] \div TicksPerSecond)
                       => /\ Binding(i).session_id = Binding(j).session_id
                          /\ Binding(i).actor_id = Binding(j).actor_id

C10_Witness ==
    \E i, j \in Invocations :
        /\ HasBinding(i) /\ HasBinding(j)
        /\ event[i].items = [message |-> "Hello"]
        /\ event[j].items = [message |-> "Hello", sessionId |-> "", userId |-> ""]
        /\ now_read[i] # now_read[j]
        /\ Binding(i).session_id = Binding(j).session_id
        /\ Binding(i).actor_id = "actor-acme"

\* The response has one of the three envelopes: 200 with response and no
\* error, 400 or 500 with error and no response.
WellFormedResponse(resp) ==
    /\ resp.statusCode \in {200, 400, 500}
    /\ resp.statusCode = 200
       => "response" \in DOMAIN resp.body /\ "error" \notin DOMAIN resp.body
    /\ resp.statusCode \in {400, 500}
       => "error" \in DOMAIN resp.body /\ "response" \notin DOMAIN resp.body

\* The steps of invocation i.
StepOf(i) ==
    \/ \E fault \in Faults, now \in 0..MaxClock : CreateAgent(i, fault, now)
    \/ AgentCallRaises(i)
    \/ \E result \in AgentResults : AgentCallReturns(i, result)
    \/ \E cls \in Interrupts : Interrupted(i, cls)
    \/ LogError(i)
    \/ ReturnError(i)

\* C11 as stated: for any event and any behaviour of the delegated agent, an
\* invocation never lets an exception reach the caller, and when it has ended
\* it has returned exactly one response, with statusCode 200, 400 or 500,
\* error and no response in the body for 400 and 500, response and no error
\* for 200.
C11_NeverPropagates ==
    \A i \in Invocations :
        /\ pc[i] # "propagated"
        /\ Len(response[i]) <= 1
        /\ Returned(i) <=> response[i] # <<>>
        /\ Returned(i) => WellFormedResponse(response[i][1])

\* C11 as amended: for any event, and whatever create_agent and the agent
\* return or raise, an invocation can always take its next step until it
\* ends; it ends by an exception reaching the caller, with no response,
\* exactly when a collaborator raised an exception that does not derive from
\* Exception (KeyboardInterrupt); in every other case it ends by returning
\* exactly one response, with statusCode 200, 400 or 500, error and no
\* response in the body for 400 and 500, response and no error for 200, and
\* nothing changes the response afterwards.
C11_OneResponseUnlessInterrupted ==
    /\ [](\A i \in Invocations :
            /\ pc[i] = "propagated" <=> trace[i].interrupt # None
            /\ pc[i] = "propagated" => response[i] = <<>>
            /\ Len(response[i]) <= 1
            /\ Returned(i) <=> response[i] # <<>>
            /\ Returned(i) => WellFormedResponse(response[i][1])
            /\ pc[i] \notin {"start", "returned", "propagated"} => ENABLED StepOf(i))
    /\ [][\A i \in Invocations :
            pc[i] \in {"returned", "propagated"}
            => (pc'[i] = pc[i] /\ response'[i] = response[i])]_vars

C11_Witness ==
    \E i, j \in Invocations :
        /\ pc[i] = "propagated" /\ trace[i].interrupt = "KeyboardInterrupt"
        /\ calls[i].agent = 1
        /\ Returned(j) /\ event[j] = NonDictEvent
        /\ response[j][1].statusCode = 500

====
